---- MODULE Spec2Model ----
(***************************************************************************)
(* NumberCruncher (src/main.py): the cleaning -> classification ->         *)
(* aggregation pipeline behind the "Load All Data" and "Plot Income by     *)
(* Category" buttons.                                                      *)
(*                                                                         *)
(* Python strings are modelled as sequences of one-character strings, so   *)
(* that `in`, ==, str.strip, sorted() and the \d{4} search are computed    *)
(* character by character.  NaN (a missing cell of an object column) is    *)
(* the one-element sequence <<"NaN">>, which no string equals.  A float    *)
(* cell is the record [nan |-> BOOLEAN, v |-> Int].                        *)
(***************************************************************************)
EXTENDS Integers, Sequences, FiniteSets, TLC

VARIABLES
  files,        \* the directory listing load_all_data reads: name -> content
  status,       \* how the last load_all_data call ended
  dfs,          \* the list of frames the last load_all_data built
  combined_df,  \* the frame captured by plot_cmd's closure
  plot_enabled, \* plot_button is NORMAL with plot_cmd as its command
  axis_var,     \* IntVar: 0 for Category, 1 for Year
  include_var,  \* the seven include checkboxes
  group_var,    \* the seven group checkboxes
  year_vars,    \* the year checkboxes
  outcome,      \* how the plot_aggregation call that just returned ended
  plot_df,      \* that call's plot_df (index label and row)
  agg_df,       \* that call's agg_df
  history       \* whether a plot_aggregation call on this frame has excluded a row

vars == <<files, status, dfs, combined_df, plot_enabled, axis_var, include_var,
          group_var, year_vars, outcome, plot_df, agg_df, history>>

----------------------------------------------------------------------------
(* Python str and float values *)

NaN == <<"NaN">>

IsStr(x) == x # NaN

NaNFloat == [nan |-> TRUE, v |-> 0]

Float(n) == [nan |-> FALSE, v |-> n]

\* The characters the model's strings use, in code point order.
Alphabet ==
  <<" ", "&", ",", "-", ".", "/", "0", "1", "2", "3", "4", "5", "6", "7",
    "8", "9", "A", "B", "C", "D", "E", "F", "G", "H", "I", "J", "K", "L",
    "M", "N", "O", "P", "Q", "R", "S", "T", "U", "V", "W", "X", "Y", "Z",
    "_", "a", "b", "c", "d", "e", "f", "g", "h", "i", "j", "k", "l", "m",
    "n", "o", "p", "q", "r", "s", "t", "u", "v", "w", "x", "y", "z">>

Ord(c) == CHOOSE i \in 1..Len(Alphabet) : Alphabet[i] = c

\* Python's a < b on str.
StrLess(a, b) ==
  \E k \in 1..Len(b) :
    /\ k <= Len(a) + 1
    /\ \A j \in 1..(k - 1) : a[j] = b[j]
    /\ \/ k = Len(a) + 1
       \/ Ord(a[k]) < Ord(b[k])

\* Python's needle in x.
Contains(x, needle) ==
  \E i \in 0..(Len(x) - Len(needle)) : SubSeq(x, i + 1, i + Len(needle)) = needle

----------------------------------------------------------------------------
(* The taxonomy: plot_aggregation's seven hardcoded rules *)

TaxonOrder == <<"trade_show", "tent", "creative", "av", "tabletop", "party", "lav">>

Taxa == {TaxonOrder[k] : k \in 1..Len(TaxonOrder)}

av_categories ==
  {<<"A", "u", "d", "i", "o">>, <<"V", "i", "d", "e", "o", " ", "D", "i", "s", "p", "l", "a", "y">>, <<"L", "i", "g", "h", "t", "i", "n", "g", " ", "A", "V">>, <<"P", "r", "e", "s", "e", "n", "t", "a", "t", "i", "o", "n", " ", "A", "i", "d">>, <<"L", "i", "g", "h", "t", "i", "n", "g">>,
   <<"V", "i", "d", "e", "o", " ", "C", "a", "m", "e", "r", "a">>}

tabletop_keywords ==
  {<<"L", "i", "n", "e", "n">>, <<"N", "a", "p", "k", "i", "n">>, <<"F", "l", "a", "t", "w", "a", "r", "e">>, <<"D", "i", "s", "h", "w", "a", "r", "e">>, <<"G", "l", "a", "s", "s", "w", "a", "r", "e">>,
   <<"B", "e", "v", "e", "r", "a", "g", "e", " ", "D", "i", "s", "p", "e", "n", "s", "e", "r", "s">>, <<"C", "o", "n", "c", "e", "s", "s", "i", "o", "n", " ", "E", "q", "u", "i", "p", "m", "e", "n", "t">>, <<"P", "l", "a", "t", "t", "e", "r", "s", " ", "&", " ", "S", "e", "r", "v", "i", "n", "g">>,
   <<"C", "h", "a", "r", "g", "e", "r", "s">>}

party_categories ==
  {<<"C", "h", "a", "i", "r", "s">>, <<"T", "a", "b", "l", "e", "s">>, <<"M", "i", "s", "c", "e", "l", "l", "a", "n", "e", "o", "u", "s", " ", " ", "P", "a", "r", "t", "y">>, <<"S", "t", "a", "g", "i", "n", "g">>,
   <<"C", "o", "o", "l", "i", "n", "g", " ", "&", " ", "H", "e", "a", "t", "i", "n", "g", " ", "E", "q", "u", "i", "p", "m", "e", "n", "t">>, <<"D", "i", "v", "i", "d", "e", "r", "s", " ", "a", "n", "d", " ", "F", "e", "n", "c", "i", "n", "g">>, <<"D", "a", "n", "c", "e", " ", "F", "l", "o", "o", "r">>,
   <<"G", "r", "i", "l", "l", "s", " ", "&", " ", "G", "r", "i", "d", "d", "l", "e", "s">>}

lav_categories ==
  {<<"L", "u", "x", "u", "r", "y", " ", "R", "e", "s", "t", "r", "o", "o", "m", " ", "&", " ", "S", "h", "o", "w", "e", "r", " ", "T", "r", "a", "i", "l", "e", "r", "s">>, <<"R", "e", "f", "r", "i", "g", "e", "r", "a", "t", "o", "r", " ", "&", " ", "F", "r", "e", "e", "z", "e", "r", " ", "T", "r", "a", "i", "l", "e", "r", "s">>}

\* The lambda each rule applies to a Category value x.
Matches(t, x) ==
  /\ IsStr(x)
  /\ CASE t = "trade_show" ->
            \/ Contains(x, <<"T", "r", "a", "d", "e", " ", "S", "h", "o", "w">>)
            \/ x = <<"S", "h", "o", "w", " ", "T", "u", "r", "f", " ", "a", "n", "d", " ", "F", "l", "o", "o", "r", "i", "n", "g">>
            \/ x = <<"E", "l", "e", "c", "t", "r", "i", "c", "a", "l", " ", "D", "i", "s", "t", "r", "i", "b", "u", "t", "i", "o", "n", " ", "E", "q", "u", "i", "p", "m", "e", "n", "t">>
       [] t = "tent" -> Contains(x, <<"T", "e", "n", "t">>)
       [] t = "creative" -> Contains(x, <<"C", "r", "e", "a", "t", "i", "v", "e">>) \/ x = <<"E", "v", "e", "n", "t", " ", "P", "r", "o", "p", "s">>
       [] t = "av" -> x \in av_categories
       [] t = "tabletop" -> \E kw \in tabletop_keywords : Contains(x, kw)
       [] t = "party" -> x \in party_categories
       [] t = "lav" -> x \in lav_categories

\* Labels of which one, the creative rule's, contains the needle of a rule
\* declared before it.
GroupLabelOverlapping(t) ==
  CASE t = "trade_show" -> <<"T", "r", "a", "d", "e", " ", "S", "h", "o", "w">>
    [] t = "tent" -> <<"T", "e", "n", "t">>
    [] t = "creative" -> <<"C", "r", "e", "a", "t", "i", "v", "e", " ", "T", "e", "n", "t">>
    [] t = "av" -> <<"A", "u", "d", "i", "o", "/", "V", "i", "s", "u", "a", "l">>
    [] t = "tabletop" -> <<"T", "a", "b", "l", "e", " ", "T", "o", "p">>
    [] t = "party" -> <<"P", "a", "r", "t", "y", " ", "R", "e", "n", "t", "a", "l">>
    [] t = "lav" -> <<"L", "a", "v", "a", "t", "o", "r", "y">>

\* The label each grouping writes.
GroupLabel(t) ==
  CASE t = "trade_show" -> <<"T", "r", "a", "d", "e", " ", "S", "h", "o", "w">>
    [] t = "tent" -> <<"T", "e", "n", "t">>
    [] t = "creative" -> <<"C", "r", "e", "a", "t", "i", "v", "e">>
    [] t = "av" -> <<"A", "u", "d", "i", "o", "/", "V", "i", "s", "u", "a", "l">>
    [] t = "tabletop" -> <<"T", "a", "b", "l", "e", " ", "T", "o", "p">>
    [] t = "party" -> <<"P", "a", "r", "t", "y", " ", "R", "e", "n", "t", "a", "l">>
    [] t = "lav" -> <<"L", "a", "v", "a", "t", "o", "r", "y">>

\* An exclusion that tests the group label in place of the rule.
ExcludeLabel(t, df) == SelectSeq(df, LAMBDA r : r.row.Category # GroupLabel(t))

\* plot_df = plot_df[~plot_df['Category'].apply(lambda ...)]
ExcludeTaxon(t, df) == SelectSeq(df, LAMBDA r : ~Matches(t, r.row.Category))

\* The seven "if not include_..." blocks, in source order from rule k on.
RECURSIVE ApplyExclusions(_, _, _)
ApplyExclusions(k, df, include) ==
  IF k > Len(TaxonOrder) THEN df
  ELSE ApplyExclusions(k + 1,
                       IF include[TaxonOrder[k]] THEN df
                       ELSE ExcludeTaxon(TaxonOrder[k], df),
                       include)

\* The rule tested on the category the frame was loaded with, not on the
\* current one.
GroupTaxonOnOriginal(t, df) ==
  [i \in 1..Len(df) |->
     IF Matches(t, combined_df[df[i].idx].Category)
     THEN [df[i] EXCEPT !.row.Category = GroupLabel(t)]
     ELSE df[i]]

\* plot_df['Category'] = plot_df['Category'].apply(lambda x: label if ... else x)
GroupTaxon(t, df) ==
  [i \in 1..Len(df) |->
     IF Matches(t, df[i].row.Category)
     THEN [df[i] EXCEPT !.row.Category = GroupLabel(t)]
     ELSE df[i]]

\* The seven "if group_... and include_..." blocks, in source order from rule k on.
RECURSIVE ApplyGroupings(_, _, _, _)
ApplyGroupings(k, df, group, include) ==
  IF k > Len(TaxonOrder) THEN df
  ELSE ApplyGroupings(k + 1,
                      IF group[TaxonOrder[k]] /\ include[TaxonOrder[k]]
                      THEN GroupTaxon(TaxonOrder[k], df)
                      ELSE df,
                      group, include)

----------------------------------------------------------------------------
(* plot_aggregation: year filter, aggregation, pivot *)

FirstYear == 2015

YearStop == 2025

\* year_vars = {year: IntVar(value=1) for year in range(2015, 2025)}
YearRange == FirstYear..(YearStop - 1)

\* selected = [yr for yr, var in year_vars.items() if var.get()]
SelectedYears(yv) == {y \in YearRange : yv[y]}

\* df[df['Year'].isin(selected_years)].copy(): the rows keep their index labels.
FilterYears(df, selected) ==
  SelectSeq([i \in 1..Len(df) |-> [idx |-> i, row |-> df[i]]],
            LAMBDA r : r.row.Year \in selected)

\* Series.sum() of Income over the rows s: NaN is skipped, an empty sum is 0.
RECURSIVE SumIncome(_)
SumIncome(s) ==
  IF s = <<>> THEN 0
  ELSE (IF Head(s).row.Income.nan THEN 0 ELSE Head(s).row.Income.v) + SumIncome(Tail(s))

\* groupby([...]): the keys of the groups; rows with a NaN key are dropped.
GroupedCategories(df) ==
  {df[i].row.Category : i \in {j \in 1..Len(df) : IsStr(df[j].row.Category)}}

GroupedYears(df) ==
  {df[i].row.Year : i \in {j \in 1..Len(df) : IsStr(df[j].row.Category)}}

GroupKeys(df) ==
  {<<df[i].row.Category, df[i].row.Year>> :
     i \in {j \in 1..Len(df) : IsStr(df[j].row.Category)}}

\* A .first() in place of .sum(): only the group's first row counts.
GroupFirst(df, cat, yr) ==
  SumIncome(SubSeq(SelectSeq(df, LAMBDA r : r.row.Category = cat /\ r.row.Year = yr), 1, 1))

\* ['Income'].sum() of the group (cat, yr).
GroupSum(df, cat, yr) ==
  SumIncome(SelectSeq(df, LAMBDA r : r.row.Category = cat /\ r.row.Year = yr))

\* The sorted index levels groupby and unstack produce.
RECURSIVE SortYears(_)
SortYears(Y) ==
  IF Y = {} THEN <<>>
  ELSE LET m == CHOOSE y \in Y : \A z \in Y : y <= z
       IN <<m>> \o SortYears(Y \ {m})

RECURSIVE SortLabels(_)
SortLabels(C) ==
  IF C = {} THEN <<>>
  ELSE LET m == CHOOSE c \in C : \A d \in C : ~StrLess(d, c)
       IN <<m>> \o SortLabels(C \ {m})

\* unstack() without fill_value: a pair without a group is left NaN.
CellValueNoFill(df, cat, yr) ==
  IF <<cat, yr>> \in GroupKeys(df) THEN Float(GroupSum(df, cat, yr)) ELSE NaNFloat

\* .unstack(fill_value=0): a cell per (category, year), 0 where no group is.
CellValue(df, cat, yr) ==
  IF <<cat, yr>> \in GroupKeys(df) THEN Float(GroupSum(df, cat, yr)) ELSE Float(0)

Unstack(df) ==
  [cat \in GroupedCategories(df), yr \in GroupedYears(df) |-> CellValue(df, cat, yr)]

\* agg_df.sum(axis=1): each category's total over the years, NaN skipped.
RECURSIVE SumCells(_, _, _)
SumCells(cells, cat, Y) ==
  IF Y = {} THEN 0
  ELSE LET y == CHOOSE z \in Y : TRUE
       IN (IF cells[cat, y].nan THEN 0 ELSE cells[cat, y].v)
            + SumCells(cells, cat, Y \ {y})

RowTotals(df) ==
  LET cells == Unstack(df) IN
  [cat \in GroupedCategories(df) |-> SumCells(cells, cat, GroupedYears(df))]

Orderings(C) ==
  {p \in [1..Cardinality(C) -> C] : \A i, j \in 1..Cardinality(C) : p[i] = p[j] => i = j}

\* sort_values() left at its default, ascending=True.
SortValuesAscending(df) ==
  LET total == RowTotals(df) IN
  {p \in Orderings(GroupedCategories(df)) :
     \A i, j \in 1..Len(p) : i < j => total[p[i]] <= total[p[j]]}

\* .sort_values(ascending=False).index: sort_values' default kind is quicksort,
\* which is not stable, so the order among equal totals is whatever the
\* installed numpy and pandas produce.
SortValuesDescending(df) ==
  LET total == RowTotals(df) IN
  {p \in Orderings(GroupedCategories(df)) :
     \A i, j \in 1..Len(p) : i < j => total[p[i]] >= total[p[j]]}

NoFrame == [axis |-> "none", index |-> <<>>, columns |-> <<>>, cells |-> <<>>]

\* by_year: groupby(['Year', 'Category']) ... unstack ... sort_index(ascending=True)
AggByYear(df) ==
  [axis |-> "Year",
   index |-> SortYears(GroupedYears(df)),
   columns |-> SortLabels(GroupedCategories(df)),
   cells |-> [yr \in GroupedYears(df), cat \in GroupedCategories(df) |->
                Unstack(df)[cat, yr]]]

\* else: groupby(['Category', 'Year']) ... unstack ... .loc[order]
AggByCategory(df, order) ==
  [axis |-> "Category",
   index |-> order,
   columns |-> SortYears(GroupedYears(df)),
   cells |-> Unstack(df)]

\* What plot_aggregation does to plot_df between the year filter and the groupby.
Classify(df, group, include) ==
  ApplyGroupings(1, ApplyExclusions(1, df, include), group, include)

\* The exclusions and relabelling done on the caller's frame itself, no copy taken.
CallerFrameInPlace(df, worked) == [i \in 1..Len(worked) |-> worked[i].row]

\* The frame the caller holds once plot_aggregation returned: the function works
\* on the .copy() it took, so the caller's frame is as it was.
CallerFrame(df, worked) == df

\* Whether the exclusion blocks removed a row of the years the call was given.
Excluded(filtered, worked) == Len(worked) # Len(filtered)

\* plot_aggregation(df, canvas_frame, group_..., selected_years, by_year, include_...)
PlotAggregation(df, group, selected_years, by_year, include) ==
  IF df = <<>> THEN
    /\ outcome' = "returned"
    /\ plot_df' = <<>>
    /\ agg_df' = NoFrame
    /\ combined_df' = df
    /\ history' = history
  ELSE IF FilterYears(df, selected_years) = <<>> THEN
    /\ outcome' = "returned"
    /\ plot_df' = <<>>
    /\ agg_df' = NoFrame
    /\ combined_df' = df
    /\ history' = history
  ELSE
    LET worked == Classify(FilterYears(df, selected_years), group, include) IN
    /\ plot_df' = worked
    /\ combined_df' = CallerFrame(df, worked)
    /\ history' = (history \/ Excluded(FilterYears(df, selected_years), worked))
    /\ IF GroupKeys(worked) = {} THEN
         \* agg_df is empty: agg_df.plot(kind='bar') raises TypeError
         /\ outcome' = "raised"
         /\ agg_df' = NoFrame
       ELSE IF by_year THEN
         /\ outcome' = "rendered"
         /\ agg_df' = AggByYear(worked)
       ELSE
         /\ outcome' = "rendered"
         /\ \E order \in SortValuesDescending(worked) :
              agg_df' = AggByCategory(worked, order)

----------------------------------------------------------------------------
(* The buttons and checkboxes of create_ui *)

\* plot_cmd: reads the checkboxes and calls plot_aggregation on combined_df.
PlotCmd ==
  /\ plot_enabled
  /\ PlotAggregation(combined_df, group_var, SelectedYears(year_vars),
                     axis_var = 1, include_var)
  /\ UNCHANGED <<files, status, dfs, plot_enabled, axis_var, include_var,
                 group_var, year_vars>>

\* toggle_axis: flips axis_var, then plot_button.invoke() (nothing while disabled).
ToggleAxis ==
  /\ axis_var' = 1 - axis_var
  /\ IF plot_enabled
     THEN PlotAggregation(combined_df, group_var, SelectedYears(year_vars),
                          axis_var' = 1, include_var)
     ELSE /\ outcome' = "idle"
          /\ UNCHANGED <<combined_df, plot_df, agg_df, history>>
  /\ UNCHANGED <<files, status, dfs, plot_enabled, include_var, group_var, year_vars>>

----------------------------------------------------------------------------
(* load_csv *)

Columns ==
  {"Category", "Item Key", "Name", "Quantity", "Purchase Cost", "Hours", "T/O",
   "Income", "ROI", "Avg Yrl ROI", "Subrental", "Repair"}

numeric_cols ==
  {"Quantity", "Purchase Cost", "Hours", "T/O", "Income", "ROI", "Avg Yrl ROI",
   "Subrental", "Repair"}

str_cols == {"Category", "Item Key", "Name"}

na_values == {<<"N", "/", "A">>, <<"-">>, <<>>}

IsDigit(c) == c \in {"0", "1", "2", "3", "4", "5", "6", "7", "8", "9"}

\* thousands=',': a cell of digit groups loses its commas before type inference.
IsThousands(s) ==
  /\ \E i \in 1..Len(s) : s[i] = ","
  /\ \A i \in 1..Len(s) : IsDigit(s[i]) \/ (s[i] = "," /\ i > 1 /\ IsDigit(s[i - 1]))

RemoveCommas(s) == SelectSeq(s, LAMBDA c : c # ",")

\* One cell as read_csv leaves it: NaN for an na_values token, else its text.
ReadCell(s) ==
  IF s \in na_values THEN NaN
  ELSE IF IsThousands(s) THEN RemoveCommas(s)
  ELSE s

IsNumber(s) == s # <<>> /\ \A i \in 1..Len(s) : IsDigit(s[i])

RECURSIVE ParseDigits(_)
ParseDigits(s) ==
  IF s = <<>> THEN 0
  ELSE 10 * ParseDigits(SubSeq(s, 1, Len(s) - 1)) + (Ord(s[Len(s)]) - Ord("0"))

\* pd.to_numeric(..., errors='coerce') of one cell.
ToNumeric(x) ==
  IF IsStr(x) /\ IsNumber(x) THEN Float(ParseDigits(x)) ELSE NaNFloat

\* str.strip()
RECURSIVE Strip(_)
Strip(s) ==
  IF s = <<>> THEN s
  ELSE IF Head(s) = " " THEN Strip(Tail(s))
  ELSE IF s[Len(s)] = " " THEN Strip(SubSeq(s, 1, Len(s) - 1))
  ELSE s

\* pd.read_csv(header=0, skiprows=[1], ...): file line 1, the line right after
\* the header, is skipped whatever it holds; lines[k] is file line k.
ReadCsv(lines) ==
  LET kept == IF lines = <<>> THEN <<>> ELSE Tail(lines) IN
  [i \in 1..Len(kept) |-> [c \in Columns |-> ReadCell(kept[i][c])]]

\* The dtype read_csv inferred for a column: numeric when every cell that is
\* not NaN is a number, object otherwise.
IsNumericDtype(df, c) == \A i \in 1..Len(df) : IsStr(df[i][c]) => IsNumber(df[i][c])

\* df.dropna(how='all')
DropEmptyRows(df) == SelectSeq(df, LAMBDA r : \E c \in Columns : IsStr(r[c]))

\* .dropna(axis=1, how='all'): the columns that survive.
KeptColumns(df) == {c \in Columns : \E i \in 1..Len(df) : IsStr(df[i][c])}

\* df[df['Item Key'] != 'Item Key']
DropHeaderRows(df) == SelectSeq(df, LAMBDA r : r["Item Key"] # <<"I", "t", "e", "m", " ", "K", "e", "y">>)

\* The two loops over numeric_cols and str_cols. A column that was dropped is
\* absent from the frame; its cells are NaN here.
ConvertRow(r, kept) ==
  [c \in Columns |->
     IF c \in numeric_cols
     THEN (IF c \in kept THEN ToNumeric(r[c]) ELSE NaNFloat)
     ELSE (IF c \in kept /\ IsStr(r[c]) THEN Strip(r[c]) ELSE NaN)]

\* df.dropna(subset=numeric_cols, how='all')
DropRowsWithoutMeasure(df) ==
  SelectSeq(df, LAMBDA r : \E c \in numeric_cols : ~r[c].nan)

NoneFrame == [ok |-> FALSE, rows |-> <<>>]

\* load_csv(file_path): [ok |-> FALSE] is the None of the except branch.
load_csv(file) ==
  IF ~file.readable THEN NoneFrame
  ELSE
    LET read == ReadCsv(file.lines)
        rows == DropEmptyRows(read)
        kept == KeptColumns(rows)
    IN IF "Item Key" \notin kept THEN NoneFrame   \* KeyError at df['Item Key']
       ELSE IF \E c \in str_cols \cap kept : IsNumericDtype(read, c)
            THEN NoneFrame                         \* .str on a numeric column
       ELSE IF ~(numeric_cols \subseteq kept) THEN NoneFrame  \* KeyError in dropna
       ELSE LET data == DropHeaderRows(rows) IN
            [ok |-> TRUE,
             rows |-> DropRowsWithoutMeasure(
                        [i \in 1..Len(data) |-> ConvertRow(data[i], kept)])]

----------------------------------------------------------------------------
(* load_all_data *)

EndsWith(s, suffix) ==
  Len(s) >= Len(suffix) /\ SubSeq(s, Len(s) - Len(suffix) + 1, Len(s)) = suffix

\* csv_files = [f for f in os.listdir(data_path) if ...]
CsvFiles(listing) ==
  {f \in DOMAIN listing : EndsWith(f, <<".", "c", "s", "v">>) /\ Contains(f, <<"A", "l", "l", "_", "I", "t", "e", "m", "s", "_">>)}

YearDigits == 4

\* re.search(r'(\d{4})', file): where the first run of four digits starts, 0 if none.
YearMatch(f) ==
  LET hits == {i \in 1..(Len(f) - YearDigits + 1) :
                 \A j \in 0..(YearDigits - 1) : IsDigit(f[i + j])}
  IN IF hits = {} THEN 0 ELSE CHOOSE i \in hits : \A k \in hits : i <= k

\* int(year_match.group(1))
YearOf(f) == ParseDigits(SubSeq(f, YearMatch(f), YearMatch(f) + YearDigits - 1))

\* single_df['Year'] = year
StampYear(rows, year) ==
  [i \in 1..Len(rows) |->
     [c \in Columns \cup {"Year"} |-> IF c = "Year" THEN year ELSE rows[i][c]]]

\* A loop that stops at the first file it cannot use.
RECURSIVE LoadLoopAborting(_, _, _)
LoadLoopAborting(names, listing, acc) ==
  IF names = <<>> THEN acc
  ELSE LET file == Head(names)
           single_df == load_csv(listing[file])
       IN IF YearMatch(file) # 0 /\ single_df.ok
          THEN LoadLoopAborting(Tail(names), listing,
                                Append(acc, StampYear(single_df.rows, YearOf(file))))
          ELSE acc

\* for file in sorted(csv_files): ... dfs.append(single_df)
RECURSIVE LoadLoop(_, _, _)
LoadLoop(names, listing, acc) ==
  IF names = <<>> THEN acc
  ELSE LET file == Head(names)
           single_df == load_csv(listing[file])
       IN LoadLoop(Tail(names), listing,
                   IF YearMatch(file) # 0 /\ single_df.ok
                   THEN Append(acc, StampYear(single_df.rows, YearOf(file)))
                   ELSE acc)

\* pd.concat(dfs, ignore_index=True)
RECURSIVE Concat(_)
Concat(frames) == IF frames = <<>> THEN <<>> ELSE Head(frames) \o Concat(Tail(frames))

LoadAllData ==
  /\ outcome' = "idle"
  /\ plot_df' = <<>>
  /\ agg_df' = NoFrame
  /\ UNCHANGED <<files, axis_var, include_var, group_var, year_vars>>
  /\ IF ~files.exists THEN
       /\ status' = "path_not_found"
       /\ UNCHANGED <<dfs, combined_df, plot_enabled, history>>
     ELSE
       LET built == LoadLoop(SortLabels(CsvFiles(files.listing)), files.listing, <<>>) IN
       /\ dfs' = built
       /\ IF built # <<>> THEN
            /\ combined_df' = Concat(built)
            /\ status' = "visualized"
            /\ plot_enabled' = TRUE
            /\ history' = FALSE
          ELSE
            /\ status' = "nothing_loaded"
            /\ UNCHANGED <<combined_df, plot_enabled, history>>

\* A Checkbutton click on one of the include, group or year boxes.
Unchecked(inc, grp, yv) ==
  Cardinality({t \in Taxa : ~inc[t]}) + Cardinality({t \in Taxa : ~grp[t]})
    + Cardinality({y \in YearRange : ~yv[y]})

MaxToggled == 1

Discard ==
  /\ outcome' = "idle"
  /\ plot_df' = <<>>
  /\ agg_df' = NoFrame
  /\ UNCHANGED <<files, status, dfs, combined_df, plot_enabled, axis_var, history>>

ToggleInclude(t) ==
  /\ include_var' = [include_var EXCEPT ![t] = ~@]
  /\ Unchecked(include_var', group_var, year_vars) <= MaxToggled
  /\ UNCHANGED <<group_var, year_vars>>
  /\ Discard

ToggleGroup(t) ==
  /\ group_var' = [group_var EXCEPT ![t] = ~@]
  /\ Unchecked(include_var, group_var', year_vars) <= MaxToggled
  /\ UNCHANGED <<include_var, year_vars>>
  /\ Discard

ToggleYear(y) ==
  /\ year_vars' = [year_vars EXCEPT ![y] = ~@]
  /\ Unchecked(include_var, group_var, year_vars') <= MaxToggled
  /\ UNCHANGED <<include_var, group_var>>
  /\ Discard

----------------------------------------------------------------------------
(* Frames plot_aggregation is applied to *)

\* A cleaned row with its file's year: one unit of one item.
Row(cat, income, year) ==
  [c \in Columns \cup {"Year"} |->
     CASE c = "Category" -> cat
       [] c = "Item Key" -> <<"K", "1">>
       [] c = "Name" -> <<"I", "t", "e", "m">>
       [] c = "Income" -> income
       [] c = "Year" -> year
       [] OTHER -> Float(1)]

Frames(R, n) == UNION {[1..k -> R] : k \in 0..n}

NoFiles == [exists |-> TRUE, listing |-> <<>>]

AllChecked == [t \in Taxa |-> TRUE]

AllYears == [y \in YearRange |-> TRUE]

MaxClassifyRows == 1

MaxUnchecked == 2

ClassifyCategories ==
  {<<"T", "r", "a", "d", "e", " ", "S", "h", "o", "w", " ", "T", "e", "n", "t">>, <<"T", "e", "n", "t", " ", "2", "0", "x", "2", "0">>, <<"E", "v", "e", "n", "t", " ", "P", "r", "o", "p", "s">>, <<"A", "u", "d", "i", "o">>, <<"T", "a", "b", "l", "e", " ", "L", "i", "n", "e", "n">>,
   <<"C", "h", "a", "i", "r", "s">>, <<"R", "e", "f", "r", "i", "g", "e", "r", "a", "t", "o", "r", " ", "&", " ", "F", "r", "e", "e", "z", "e", "r", " ", "T", "r", "a", "i", "l", "e", "r", "s">>, <<"A", "u", "d", "i", "o", "/", "V", "i", "s", "u", "a", "l">>, <<"P", "a", "r", "t", "y", " ", "R", "e", "n", "t", "a", "l">>,
   <<"G", "e", "n", "e", "r", "a", "t", "o", "r", "s">>, NaN}

ClassifyRows == {Row(cat, Float(10), 2024) : cat \in ClassifyCategories}

InitClassify ==
  /\ files = NoFiles
  /\ status = "visualized"
  /\ combined_df \in Frames(ClassifyRows, MaxClassifyRows)
  /\ dfs = <<combined_df>>
  /\ plot_enabled = TRUE
  /\ axis_var = 0
  /\ include_var \in [Taxa -> BOOLEAN]
  /\ group_var \in [Taxa -> BOOLEAN]
  /\ year_vars = AllYears
  /\ Unchecked(include_var, group_var, year_vars) <= MaxUnchecked
  /\ outcome = "idle"
  /\ plot_df = <<>>
  /\ agg_df = NoFrame
  /\ history = FALSE

SpecClassify == InitClassify /\ [][PlotCmd]_vars

MaxRows == 2

PivotCategories == {<<"T", "e", "n", "t", " ", "B">>, <<"T", "e", "n", "t", " ", "A">>, <<"A", "u", "d", "i", "o">>, NaN}

PivotYears == {2023, 2024}

\* Income is missing, or 10 in 2023 and 20 in 2024.
PivotCells ==
  {<<NaNFloat, 2023>>, <<Float(10), 2023>>, <<NaNFloat, 2024>>, <<Float(20), 2024>>}

PivotRows == {Row(cat, cell[1], cell[2]) : cat \in PivotCategories, cell \in PivotCells}

PivotTaxa == {"tent"}

InitPivot ==
  /\ files = NoFiles
  /\ status = "visualized"
  /\ combined_df \in Frames(PivotRows, MaxRows)
  /\ dfs = <<combined_df>>
  /\ plot_enabled = TRUE
  /\ axis_var \in {0, 1}
  /\ include_var \in {f \in [Taxa -> BOOLEAN] : \A t \in Taxa \ PivotTaxa : f[t]}
  /\ group_var \in {f \in [Taxa -> BOOLEAN] : \A t \in Taxa \ PivotTaxa : f[t]}
  /\ year_vars \in {f \in [YearRange -> BOOLEAN] : \A y \in YearRange \ PivotYears : f[y]}
  /\ outcome = "idle"
  /\ plot_df = <<>>
  /\ agg_df = NoFrame
  /\ history = FALSE

SpecPivot == InitPivot /\ [][PlotCmd]_vars

----------------------------------------------------------------------------
(* Files load_all_data is applied to *)

\* One line of an export: the three text cells, Income, and one cell repeated
\* in the eight other measure columns.
RawRow(cat, key, name, income, rest) ==
  [c \in Columns |->
     CASE c = "Category" -> cat
       [] c = "Item Key" -> key
       [] c = "Name" -> name
       [] c = "Income" -> income
       [] OTHER -> rest]

MaxLines == 2

CleanRawRows ==
  {RawRow(text[1], key, text[2], income, rest) :
     text \in {<<<<"T", "e", "n", "t", " ">>, <<" ", "P", "o", "l", "e">>>>, <<<<>>, <<>>>>},
     key \in {<<"K", "1">>, <<"I", "t", "e", "m", " ", "K", "e", "y">>, <<" ", "I", "t", "e", "m", " ", "K", "e", "y">>, <<>>},
     income \in {<<"1", ",", "0", "0", "0">>, <<"x">>, <<>>},
     rest \in {<<"1">>, <<>>}}

InitClean ==
  /\ files \in {[exists |-> TRUE,
                 listing |-> [f \in {<<"A", "l", "l", "_", "I", "t", "e", "m", "s", "_", "2", "0", "2", "4", ".", "c", "s", "v">>} |->
                                [readable |-> TRUE, lines |-> lines]]] :
                  lines \in Frames(CleanRawRows, MaxLines)}
  /\ status = ""
  /\ dfs = <<>>
  /\ combined_df = <<>>
  /\ plot_enabled = FALSE
  /\ axis_var = 0
  /\ include_var = AllChecked
  /\ group_var = AllChecked
  /\ year_vars = AllYears
  /\ outcome = "idle"
  /\ plot_df = <<>>
  /\ agg_df = NoFrame
  /\ history = FALSE

SpecClean == InitClean /\ [][LoadAllData]_vars

BlankLine == RawRow(<<>>, <<>>, <<>>, <<>>, <<>>)

TentLine == RawRow(<<"T", "e", "n", "t", " ", "2", "0", "x", "2", "0">>, <<"K", "1">>, <<"P", "o", "l", "e">>, <<"1", ",", "0", "0", "0">>, <<"1">>)

AudioLine == RawRow(<<"A", "u", "d", "i", "o">>, <<"K", "2">>, <<"S", "p", "e", "a", "k", "e", "r">>, <<"5", "0", "0">>, <<"1">>)

\* What a discovered file may hold: unreadable, a header only, one record after
\* the skipped line, two records after it.
FileContents ==
  {[readable |-> FALSE, lines |-> <<>>],
   [readable |-> TRUE, lines |-> <<>>],
   [readable |-> TRUE, lines |-> <<BlankLine, TentLine>>],
   [readable |-> TRUE, lines |-> <<BlankLine, AudioLine, TentLine>>]}

FileNames ==
  {<<"A", "l", "l", "_", "I", "t", "e", "m", "s", "_", "2", "0", "2", "3", ".", "c", "s", "v">>, <<"A", "l", "l", "_", "I", "t", "e", "m", "s", "_", "2", "0", "2", "4", ".", "c", "s", "v">>, <<"A", "l", "l", "_", "I", "t", "e", "m", "s", "_", ".", "c", "s", "v">>,
   <<"2", "0", "2", "2", "_", "A", "l", "l", "_", "I", "t", "e", "m", "s", "_", ".", "c", "s", "v">>, <<"I", "t", "e", "m", "s", "_", "2", "0", "2", "1", ".", "c", "s", "v">>}

MaxFiles == 2

Directories ==
  {[exists |-> FALSE, listing |-> <<>>]} \cup
  {[exists |-> TRUE, listing |-> l] :
     l \in UNION {[N -> FileContents] :
                    N \in {M \in SUBSET FileNames : Cardinality(M) <= MaxFiles}}}

InitLoad ==
  /\ files \in Directories
  /\ status = ""
  /\ dfs = <<>>
  /\ combined_df = <<>>
  /\ plot_enabled = FALSE
  /\ axis_var = 0
  /\ include_var = AllChecked
  /\ group_var = AllChecked
  /\ year_vars = AllYears
  /\ outcome = "idle"
  /\ plot_df = <<>>
  /\ agg_df = NoFrame
  /\ history = FALSE

SpecLoad == InitLoad /\ [][LoadAllData]_vars

----------------------------------------------------------------------------
(* The application *)

Export2023 == [readable |-> TRUE, lines |-> <<BlankLine, TentLine>>]

Export2024 == [readable |-> TRUE, lines |-> <<BlankLine, AudioLine, TentLine>>]

Unreadable == [readable |-> FALSE, lines |-> <<>>]

AppDirectories ==
  {[exists |-> FALSE, listing |-> <<>>],
   [exists |-> TRUE,
    listing |-> [f \in {<<"A", "l", "l", "_", "I", "t", "e", "m", "s", "_", "2", "0", "2", "3", ".", "c", "s", "v">>, <<"A", "l", "l", "_", "I", "t", "e", "m", "s", "_", "2", "0", "2", "4", ".", "c", "s", "v">>} |->
                   IF f = <<"A", "l", "l", "_", "I", "t", "e", "m", "s", "_", "2", "0", "2", "3", ".", "c", "s", "v">> THEN Export2023 ELSE Export2024]],
   [exists |-> TRUE,
    listing |-> [f \in {<<"A", "l", "l", "_", "I", "t", "e", "m", "s", "_", "2", "0", "2", "3", ".", "c", "s", "v">>, <<"A", "l", "l", "_", "I", "t", "e", "m", "s", "_", "2", "0", "2", "4", ".", "c", "s", "v">>} |->
                   IF f = <<"A", "l", "l", "_", "I", "t", "e", "m", "s", "_", "2", "0", "2", "3", ".", "c", "s", "v">> THEN Unreadable ELSE Export2023]]}

Init ==
  /\ files \in AppDirectories
  /\ status = ""
  /\ dfs = <<>>
  /\ combined_df = <<>>
  /\ plot_enabled = FALSE
  /\ axis_var = 0
  /\ include_var = AllChecked
  /\ group_var = AllChecked
  /\ year_vars = AllYears
  /\ outcome = "idle"
  /\ plot_df = <<>>
  /\ agg_df = NoFrame
  /\ history = FALSE

Next ==
  \/ LoadAllData
  \/ PlotCmd
  \/ ToggleAxis
  \/ \E t \in Taxa : ToggleInclude(t)
  \/ \E t \in Taxa : ToggleGroup(t)
  \/ \E y \in YearRange : ToggleYear(y)

Spec == Init /\ [][Next]_vars


----------------------------------------------------------------------------
(* Shared vocabulary of the properties *)

\* The plot_aggregation call that just returned got past both early returns.
Classified == outcome \in {"rendered", "raised"}

\* A record of the caller's frame is in a selected year and no unchecked
\* include box's rule matches its Category.
Survives(r) ==
  /\ r.Year \in SelectedYears(year_vars)
  /\ \A t \in Taxa : ~include_var[t] => ~Matches(t, r.Category)

Survivors == {i \in 1..Len(combined_df) : Survives(combined_df[i])}

RECURSIVE IncomeOver(_)
IncomeOver(I) ==
  IF I = {} THEN 0
  ELSE LET i == CHOOSE j \in I : TRUE
       IN (IF combined_df[i].Income.nan THEN 0 ELSE combined_df[i].Income.v)
            + IncomeOver(I \ {i})

RECURSIVE CellTotal(_, _)
CellTotal(cells, D) ==
  IF D = {} THEN 0
  ELSE LET d == CHOOSE e \in D : TRUE
       IN (IF cells[d].nan THEN 0 ELSE cells[d].v) + CellTotal(cells, D \ {d})

Range(s) == {s[i] : i \in 1..Len(s)}

----------------------------------------------------------------------------
(* C1: conservation *)

\* C1 as stated: the cells of the pivot sum to the Income (missing as 0) of
\* every record that is in a selected year and survives the exclusions,
\* records with a missing Category included.
C1_ConservationAll ==
  outcome = "rendered" =>
    CellTotal(agg_df.cells, DOMAIN agg_df.cells) = IncomeOver(Survivors)

\* C1 amended: the cells of the pivot sum to the Income (missing as 0) of the
\* records that are in a selected year, survive the exclusions and have a
\* Category; groupby drops the records whose Category is missing.
C1_Conservation ==
  outcome = "rendered" =>
    CellTotal(agg_df.cells, DOMAIN agg_df.cells)
      = IncomeOver({i \in Survivors : IsStr(combined_df[i].Category)})

\* A pivot was built, Tent excluded, from a frame in which a record with a
\* missing Category and an Income survives next to a record with a Category.
C1_Witness ==
  /\ outcome = "rendered"
  /\ ~include_var["tent"]
  /\ \E i \in Survivors :
       ~IsStr(combined_df[i].Category) /\ ~combined_df[i].Income.nan
  /\ CellTotal(agg_df.cells, DOMAIN agg_df.cells) > 0

----------------------------------------------------------------------------
(* C2: exclusion dominance *)

\* The Category the caller's frame holds for a row of plot_df.
Original(r) == combined_df[r.idx].Category

\* C2 as stated: for a taxon whose include box is unchecked, no surviving
\* record's category equals the taxon's group label and no surviving record's
\* original category matches the taxon's rule, whatever the other boxes are.
C2_ExclusionDominance ==
  Classified =>
    \A t \in Taxa : ~include_var[t] =>
      \A i \in 1..Len(plot_df) :
        /\ plot_df[i].row.Category # GroupLabel(t)
        /\ ~Matches(t, Original(plot_df[i]))

\* C2 amended: for a taxon whose include box is unchecked, no surviving
\* record's original category matches the taxon's rule and none is relabelled
\* to the taxon's group label; a surviving record carries that label only when
\* it is its original category, which the rule then does not match.
C2_ExclusionDominanceAmended ==
  Classified =>
    \A t \in Taxa : ~include_var[t] =>
      \A i \in 1..Len(plot_df) :
        /\ ~Matches(t, Original(plot_df[i]))
        /\ plot_df[i].row.Category = GroupLabel(t) =>
             /\ Original(plot_df[i]) = GroupLabel(t)
             /\ ~Matches(t, GroupLabel(t))

\* An unchecked include box with its group box checked removed the one record
\* its rule matches.
C2_Witness ==
  /\ Classified
  /\ \E t \in Taxa :
       /\ ~include_var[t]
       /\ group_var[t]
       /\ Len(combined_df) = 1
       /\ Matches(t, combined_df[1].Category)
       /\ plot_df = <<>>

----------------------------------------------------------------------------
(* C3: relabelling is a sequential fold *)

Enabled(k) == include_var[TaxonOrder[k]] /\ group_var[TaxonOrder[k]]

\* The enabled rules that match a category, by position in the fixed order.
EnabledMatching(x) == {k \in 1..Len(TaxonOrder) : Enabled(k) /\ Matches(TaxonOrder[k], x)}

First(K) == CHOOSE k \in K : \A j \in K : k <= j

\* C3: a surviving record that no enabled rule matches keeps its category; one
\* that enabled rules match ends with the label of the earliest of them, unless
\* a later enabled rule matches that label; so a category holding both
\* 'Trade Show' and 'Tent' ends as 'Trade Show' when both are grouped and as
\* 'Tent' when only Tent is.
C3_SequentialFold ==
  Classified =>
    \A i \in 1..Len(plot_df) :
      LET orig == Original(plot_df[i])
          final == plot_df[i].row.Category
          K == EnabledMatching(orig)
      IN /\ K = {} => final = orig
         /\ K # {} =>
              \/ final = GroupLabel(TaxonOrder[First(K)])
              \/ \E j \in (First(K) + 1)..Len(TaxonOrder) :
                   Enabled(j) /\ Matches(TaxonOrder[j], GroupLabel(TaxonOrder[First(K)]))
         /\ (Matches("trade_show", orig) /\ Matches("tent", orig) /\ Enabled(2)) =>
              final = IF Enabled(1) THEN <<"T", "r", "a", "d", "e", " ", "S", "h", "o", "w">> ELSE <<"T", "e", "n", "t">>

\* A category holding both 'Trade Show' and 'Tent' went through both enabled
\* rules and ended as 'Trade Show'.
C3_Witness ==
  /\ Classified
  /\ Enabled(1)
  /\ Enabled(2)
  /\ \E i \in 1..Len(plot_df) :
       /\ Matches("trade_show", Original(plot_df[i]))
       /\ Matches("tent", Original(plot_df[i]))
       /\ Original(plot_df[i]) # <<"T", "r", "a", "d", "e", " ", "S", "h", "o", "w">>
       /\ plot_df[i].row.Category = <<"T", "r", "a", "d", "e", " ", "S", "h", "o", "w">>

----------------------------------------------------------------------------
(* C4: the by-category orientation *)

\* The rows of plot_df that reach the pivot: groupby drops a missing Category.
Keyed == {i \in 1..Len(plot_df) : IsStr(plot_df[i].row.Category)}

RECURSIVE PlotIncomeOver(_)
PlotIncomeOver(I) ==
  IF I = {} THEN 0
  ELSE LET i == CHOOSE j \in I : TRUE
       IN (IF plot_df[i].row.Income.nan THEN 0 ELSE plot_df[i].row.Income.v)
            + PlotIncomeOver(I \ {i})

\* A category's total income over the included years.
TotalOf(cat) == PlotIncomeOver({i \in Keyed : plot_df[i].row.Category = cat})

\* Where a category is first met in the surviving records.
FirstSeen(cat) ==
  CHOOSE i \in Keyed :
    /\ plot_df[i].row.Category = cat
    /\ \A j \in Keyed : plot_df[j].row.Category = cat => i <= j

IsAscending(s) == \A i, j \in 1..Len(s) : i < j => s[i] < s[j]

IsDistinct(s) == \A i, j \in 1..Len(s) : s[i] = s[j] => i = j

ByCategoryShape ==
  /\ agg_df.axis = "Category"
  /\ IsDistinct(agg_df.index)
  /\ Range(agg_df.index) = {plot_df[i].row.Category : i \in Keyed}
  /\ \A i, j \in 1..Len(agg_df.index) :
       i < j => TotalOf(agg_df.index[i]) >= TotalOf(agg_df.index[j])
  /\ IsAscending(agg_df.columns)
  /\ Range(agg_df.columns) = {plot_df[i].row.Year : i \in Keyed}

\* C4 as stated: by category, the row keys are the distinct surviving
\* categories by descending total income, categories with equal totals in the
\* order in which the records first show them, and the column keys are the
\* distinct years ascending.
C4_ByCategoryStable ==
  (outcome = "rendered" /\ axis_var = 0) =>
    /\ ByCategoryShape
    /\ \A i, j \in 1..Len(agg_df.index) :
         (i < j /\ TotalOf(agg_df.index[i]) = TotalOf(agg_df.index[j])) =>
           FirstSeen(agg_df.index[i]) < FirstSeen(agg_df.index[j])

\* C4 amended: by category, the row keys are the distinct categories of the
\* surviving records, each once, in an order of non-increasing total income
\* (the order among equal totals is not fixed), and the column keys are the
\* distinct years of those records, ascending.
C4_ByCategory == (outcome = "rendered" /\ axis_var = 0) => ByCategoryShape

\* A by-category pivot with two rows of different totals and two year columns.
C4_Witness ==
  /\ outcome = "rendered"
  /\ axis_var = 0
  /\ Len(agg_df.index) = 2
  /\ Len(agg_df.columns) = 2
  /\ TotalOf(agg_df.index[1]) > TotalOf(agg_df.index[2])
  /\ StrLess(agg_df.index[2], agg_df.index[1])

----------------------------------------------------------------------------
(* C5: density *)

\* C5: in both orientations the pivot has a cell for every pair of a row key
\* and a column key, every cell is a number, and a (category, year) pair that
\* no surviving record carries holds 0.
C5_Density ==
  outcome = "rendered" =>
    /\ DOMAIN agg_df.cells = Range(agg_df.index) \X Range(agg_df.columns)
    /\ \A d \in DOMAIN agg_df.cells : ~agg_df.cells[d].nan
    /\ \A d \in DOMAIN agg_df.cells :
         LET cat == IF axis_var = 1 THEN d[2] ELSE d[1]
             yr == IF axis_var = 1 THEN d[1] ELSE d[2]
         IN (~\E i \in Keyed : plot_df[i].row.Category = cat /\ plot_df[i].row.Year = yr)
              => agg_df.cells[d] = Float(0)

\* A pivot with two categories and two years in which one pair has no record.
C5_Witness ==
  /\ outcome = "rendered"
  /\ Cardinality(DOMAIN agg_df.cells) = 4
  /\ Cardinality({<<plot_df[i].row.Category, plot_df[i].row.Year>> : i \in Keyed}) = 2

----------------------------------------------------------------------------
(* C6: empty input *)

\* Nothing is left to aggregate: no record, no record of a selected year, or
\* no record that survives the exclusions.
NothingLeft == Survivors = {}

----------------------------------------------------------------------------
(* C7: repeated header rows *)

\* C7 as stated: no record load_csv returns has, after trimming, the header
\* token 'Item Key' as its Item Key, whatever its other fields hold.
C7_NoHeaderRows ==
  \A k \in 1..Len(dfs) : \A i \in 1..Len(dfs[k]) : dfs[k][i]["Item Key"] # <<"I", "t", "e", "m", " ", "K", "e", "y">>

----------------------------------------------------------------------------
(* C8: the batch load skips what it cannot use *)

\* \d{4} matches somewhere in the name.
HasYear(f) ==
  \E i \in 1..Len(f) :
    i + 3 <= Len(f) /\ \A j \in i..(i + 3) : IsDigit(f[j])

\* The discovered files that carry a year and load.
Usable == {f \in CsvFiles(files.listing) : HasYear(f) /\ load_csv(files.listing[f]).ok}

\* Their records, each with its own file's year, in sorted file-name order.
ExpectedFrames ==
  LET names == SortLabels(Usable) IN
  [k \in 1..Len(names) |->
     StampYear(load_csv(files.listing[names[k]]).rows, YearOf(names[k]))]

\* C8: after a batch load the frames built are those of the files that carry a
\* year and load, in sorted file-name order, each record stamped with its
\* file's year; a file without a year or that fails to load is passed over;
\* the combined frame is their concatenation.
C8_BatchLoadSkips ==
  /\ status = "visualized" =>
       /\ ExpectedFrames # <<>>
       /\ dfs = ExpectedFrames
       /\ combined_df = Concat(ExpectedFrames)
       /\ plot_enabled
  /\ status = "nothing_loaded" =>
       /\ ExpectedFrames = <<>>
       /\ dfs = <<>>
       /\ ~plot_enabled

\* A load passed over a discovered file (no year, or unreadable) that sorts
\* before a file whose records it then combined.
C8_Witness ==
  /\ status = "visualized"
  /\ combined_df # <<>>
  /\ \E f \in CsvFiles(files.listing) \ Usable :
       \E g \in Usable :
         StrLess(f, g) /\ load_csv(files.listing[g]).rows # <<>>

----------------------------------------------------------------------------
(* C10: what the cleaning removes *)

TheFile == files.listing[<<"A", "l", "l", "_", "I", "t", "e", "m", "s", "_", "2", "0", "2", "4", ".", "c", "s", "v">>]

\* A line of the file that is not empty across the mapped fields, does not
\* repeat the header token and has a measure that parses.
Retainable(line) ==
  /\ \E c \in Columns : IsStr(ReadCell(line[c]))
  /\ ~(IsStr(ReadCell(line["Item Key"])) /\ Strip(ReadCell(line["Item Key"])) = <<"I", "t", "e", "m", " ", "K", "e", "y">>)
  /\ \E c \in numeric_cols : ~ToNumeric(ReadCell(line[c])).nan

\* The record a line becomes.
Cleaned(line) ==
  [c \in Columns \cup {"Year"} |->
     IF c = "Year" THEN 2024
     ELSE IF c \in numeric_cols THEN ToNumeric(ReadCell(line[c]))
     ELSE IF IsStr(ReadCell(line[c])) THEN Strip(ReadCell(line[c]))
     ELSE NaN]

\* C10 as stated: every line after the header that is not empty, does not
\* repeat the header token and has a parseable measure is in load_csv's
\* output, the line right after the header included.
C10_OnlyStructuralRemovals ==
  status \in {"visualized", "nothing_loaded"} =>
    \A k \in 1..Len(TheFile.lines) :
      Retainable(TheFile.lines[k]) =>
        \E i \in 1..Len(combined_df) : combined_df[i] = Cleaned(TheFile.lines[k])

----------------------------------------------------------------------------
(* C9: plot_aggregation keeps nothing between calls *)

\* C9: after any sequence of calls the caller's frame is the frame the load
\* combined, record for record, and the records the last call worked on are
\* the records of that loaded frame that its own arguments select; a taxon
\* excluded by an earlier call and included by this one is back.
C9_NoStateBetweenCalls ==
  plot_enabled =>
    LET loaded == Concat(dfs) IN
    /\ combined_df = loaded
    /\ Classified =>
         /\ {plot_df[i].idx : i \in 1..Len(plot_df)}
              = {i \in 1..Len(loaded) :
                   /\ loaded[i].Year \in SelectedYears(year_vars)
                   /\ \A t \in Taxa : ~include_var[t] => ~Matches(t, loaded[i].Category)}
         /\ \A i \in 1..Len(plot_df) :
              EnabledMatching(loaded[plot_df[i].idx].Category) = {} =>
                plot_df[i].row = loaded[plot_df[i].idx]

\* An earlier call excluded records; this call, with every include box checked,
\* works on every record again, the ones a rule matches among them.
C9_Witness ==
  /\ history
  /\ outcome = "rendered"
  /\ \A t \in Taxa : include_var[t]
  /\ Len(plot_df) = Len(combined_df)
  /\ \E i \in 1..Len(combined_df) : Matches("tent", combined_df[i].Category)

----------------------------------------------------------------------------
(* C11: classification applied to its own output *)

\* The rule whose grouping wrote the category of a relabelled record.
Producer(cat) == CHOOSE k \in 1..Len(TaxonOrder) : GroupLabel(TaxonOrder[k]) = cat

\* The records of the output whose category a grouping wrote.
Relabelled == {i \in 1..Len(plot_df) : plot_df[i].row.Category # Original(plot_df[i])}

\* C11: under the flags of the call, the exclusion blocks followed by the
\* grouping blocks, applied to the records the call left, leave the same
\* records with the same categories; and the label of every relabelled record
\* is matched by no rule declared before or at its producer whose include box
\* is unchecked, and is rewritten to itself by every such rule that is enabled.
C11_Idempotent ==
  Classified =>
    /\ Classify(plot_df, group_var, include_var) = plot_df
    /\ \A i \in Relabelled :
         LET cat == plot_df[i].row.Category IN
         \A j \in 1..Producer(cat) :
           /\ ~include_var[TaxonOrder[j]] => ~Matches(TaxonOrder[j], cat)
           /\ (Enabled(j) /\ Matches(TaxonOrder[j], cat)) => GroupLabel(TaxonOrder[j]) = cat

\* A call that relabelled a record while some taxon was excluded and some
\* rule declared before the producer was enabled.
C11_Witness ==
  /\ Classified
  /\ \E t \in Taxa : ~include_var[t]
  /\ \E i \in Relabelled :
       \E j \in 1..(Producer(plot_df[i].row.Category) - 1) : Enabled(j)
====
